---- MODULE Spec2Model ----
(***************************************************************************)
(* Model of gantz's directory-consensus code (src/src/consensus.rs):       *)
(*   - parse_consensus_document, one line of the document per step;        *)
(*   - OnionRouter::is_stable / is_available and the Flags bit set;        *)
(*   - Consensus::choose_guard_relay, one loop iteration per step.         *)
(* A panic (assert_eq!, expect, unwrap, unreachable!, index out of bounds) *)
(* is the outcome [kind |-> "Panic"]; an Err(..) is [kind |-> "Err"].      *)
(***************************************************************************)
EXTENDS Integers, Sequences, FiniteSets, TLC

\* ------------------------------------------------------------------------
\* Bounds of the model (not program constants)
\* ------------------------------------------------------------------------
\* number of freely chosen lines that follow the fixed head of the document
MaxTail == 2
\* relay blocks in a short document head: 0 .. MaxSmallBlocks
MaxSmallBlocks == 2
\* relay blocks in a long document head:
\* ONION_ROUTER_LIMIT .. ONION_ROUTER_LIMIT + MaxOverLimit
MaxOverLimit == 1
\* indices standing for a draw from [0, usize::MAX) on an empty sequence
WrapSample == 1
\* length of the relay sequences handed to choose_guard_relay
MaxRelays == 3

\* ------------------------------------------------------------------------
\* Program constants
\* ------------------------------------------------------------------------
ONION_ROUTER_LIMIT == 100
\* the literal 100 of while attempted < 100
MaxAttempts == 100

\* Option<T>
None == <<>>
Some(v) == <<v>>
IsSome(o) == o # <<>>
Unwrap(o) == o[1]

\* ------------------------------------------------------------------------
\* bitflags! Flags: u32
\* ------------------------------------------------------------------------
AUTHORITY == 1
BAD_EXIT == 2
EXIT == 4
FAST == 8
GUARD == 16
HS_DIR == 32
MIDDLE_ONLY == 64
NO_ED_CONSENSUS == 128
STABLE == 256
STALE_DESC == 512
RUNNING == 1024
VALID == 2048
V2DIR == 4096

FlagsEmpty == 0

\* number of bits of the defined flags
FlagBits == 13

Pow2(n) == IF n = 0 THEN 1 ELSE
           IF n = 1 THEN 2 ELSE
           IF n = 2 THEN 4 ELSE
           IF n = 3 THEN 8 ELSE
           IF n = 4 THEN 16 ELSE
           IF n = 5 THEN 32 ELSE
           IF n = 6 THEN 64 ELSE
           IF n = 7 THEN 128 ELSE
           IF n = 8 THEN 256 ELSE
           IF n = 9 THEN 512 ELSE
           IF n = 10 THEN 1024 ELSE
           IF n = 11 THEN 2048 ELSE 4096

Bit(x, n) == (x \div Pow2(n)) % 2

RECURSIVE BitOrFrom(_, _, _)
BitOrFrom(a, b, n) ==
    IF n = FlagBits THEN 0
    ELSE (IF Bit(a, n) = 1 \/ Bit(b, n) = 1 THEN Pow2(n) ELSE 0)
         + BitOrFrom(a, b, n + 1)

RECURSIVE BitAndFrom(_, _, _)
BitAndFrom(a, b, n) ==
    IF n = FlagBits THEN 0
    ELSE (IF Bit(a, n) = 1 /\ Bit(b, n) = 1 THEN Pow2(n) ELSE 0)
         + BitAndFrom(a, b, n + 1)

\* a | b
BitOr(a, b) == BitOrFrom(a, b, 0)
\* a & b
BitAnd(a, b) == BitAndFrom(a, b, 0)

\* Flags::contains(other): all bits of other are set in flags
FlagsContains(flags, other) == BitAnd(flags, other) = other

FlagsInsert_Overwrite(flags, other) == other

\* Flags::insert(other)
FlagsInsert(flags, other) == BitOr(flags, other)

\* impl From<&str> for Flags: the thirteen match arms; None stands for the
\* _ => unreachable!() arm, which panics
FlagsFrom(s) ==
    IF s = "Authority" THEN Some(AUTHORITY) ELSE
    IF s = "BadExit" THEN Some(BAD_EXIT) ELSE
    IF s = "Exit" THEN Some(EXIT) ELSE
    IF s = "Fast" THEN Some(FAST) ELSE
    IF s = "Guard" THEN Some(GUARD) ELSE
    IF s = "HSDir" THEN Some(HS_DIR) ELSE
    IF s = "MiddleOnly" THEN Some(MIDDLE_ONLY) ELSE
    IF s = "NoEdConsensus" THEN Some(NO_ED_CONSENSUS) ELSE
    IF s = "Stable" THEN Some(STABLE) ELSE
    IF s = "StaleDesc" THEN Some(STALE_DESC) ELSE
    IF s = "Running" THEN Some(RUNNING) ELSE
    IF s = "Valid" THEN Some(VALID) ELSE
    IF s = "V2Dir" THEN Some(V2DIR) ELSE None

\* ------------------------------------------------------------------------
\* OnionRouter
\* ------------------------------------------------------------------------
OnionRouter(nickname, ip, or_port, dir_port, flags) ==
    [nickname |-> nickname, ip |-> ip, or_port |-> or_port,
     dir_port |-> dir_port, flags |-> flags]

StableMask == BitOr(BitOr(VALID, RUNNING), BitOr(FAST, STABLE))

is_stable(or) == FlagsContains(or.flags, StableMask)

is_available_NoDirPort(or) == is_stable(or)

is_available(or) == is_stable(or) /\ or.dir_port > 0

\* ------------------------------------------------------------------------
\* Token parsers of the standard library and chrono, on the tokens that
\* occur in the modelled documents; None is the Err(..) of the parser.
\* ------------------------------------------------------------------------
\* str::parse::<Ipv4Addr>: four decimal octets 0..255
Ipv4Table == ("10.0.0.1" :> <<10, 0, 0, 1>>) @@ ("10.0.0.2" :> <<10, 0, 0, 2>>)
ParseIpv4(s) == IF s \in DOMAIN Ipv4Table THEN Some(Ipv4Table[s]) ELSE None

\* str::parse::<u16>: decimal digits, value 0..65535
U16Table == ("0" :> 0) @@ ("9001" :> 9001) @@ ("9030" :> 9030)
ParseU16(s) == IF s \in DOMAIN U16Table THEN Some(U16Table[s]) ELSE None

\* NaiveDateTime::parse_from_str(format!("{} {}", d, t), "%Y-%m-%d %H:%M:%S")
\* followed by DateTime::<Utc>::from_utc: seconds since the Unix epoch
DateTable == ("2024-01-01" :> 1704067200) @@ ("2024-01-02" :> 1704153600)
             @@ ("2024-01-03" :> 1704240000)
TimeTable == ("00:00:00" :> 0) @@ ("12:00:00" :> 43200)
ParseDateTime(d, t) ==
    IF d \in DOMAIN DateTable /\ t \in DOMAIN TimeTable
    THEN Some(DateTable[d] + TimeTable[t]) ELSE None

\* ------------------------------------------------------------------------
\* Results
\* ------------------------------------------------------------------------
NoResult == [kind |-> "None"]
Panic(msg) == [kind |-> "Panic", msg |-> msg]
Err(e, arg) == [kind |-> "Err", err |-> e, arg |-> arg]
Ok(v) == [kind |-> "Ok", value |-> v]

Consensus(va, vu, ors) ==
    [valid_after |-> va, valid_until |-> vu, onion_routers |-> ors]

\* the locals of parse_consensus_document
Locals(va, vu, tmp, ors) ==
    [valid_after |-> va, valid_until |-> vu,
     tmp_onion_router |-> tmp, onion_routers |-> ors]

InitLocals == Locals(None, None, None, <<>>)

\* outcome of one iteration of for line in consensus.lines()
Continue(loc) == [ctl |-> "next", loc |-> loc, res |-> NoResult]
Break(loc) == [ctl |-> "break", loc |-> loc, res |-> NoResult]
Return(res) == [ctl |-> "return", loc |-> InitLocals, res |-> res]

\* strs[k] with the zero-based index of the source
Tok(strs, k) == strs[k + 1]

\* ------------------------------------------------------------------------
\* parse_consensus_document: the arms of match strs[0]
\* ------------------------------------------------------------------------
\* "network-status-version"
LineVersion(loc, strs) ==
    IF Len(strs) # 3 THEN Return(Panic("assertion failed"))
    ELSE IF Tok(strs, 1) # "3" \/ Tok(strs, 2) # "microdesc"
         THEN Return(Err("UnsupportedDocumentFormatVersion", Tok(strs, 1)))
         ELSE Continue(loc)

\* "vote-status"
LineVoteStatus(loc, strs) ==
    IF Len(strs) # 2 THEN Return(Panic("assertion failed"))
    ELSE IF Tok(strs, 1) # "consensus"
         THEN Return(Err("UnexpectedVoteStatus", Tok(strs, 1)))
         ELSE Continue(loc)

\* "valid-after"
LineValidAfter(loc, strs) ==
    IF Len(strs) # 3 THEN Return(Panic("assertion failed"))
    ELSE LET parsed == ParseDateTime(Tok(strs, 1), Tok(strs, 2))
         IN IF IsSome(parsed)
            THEN Continue([loc EXCEPT !.valid_after = Some(Unwrap(parsed))])
            ELSE Return(Err("DateTimeParseError", "valid-after"))

LineValidUntil_KeepFirst(loc, strs) ==
    IF Len(strs) # 3 THEN Return(Panic("assertion failed"))
    ELSE LET parsed == ParseDateTime(Tok(strs, 1), Tok(strs, 2))
         IN IF IsSome(parsed)
            THEN IF IsSome(loc.valid_until) THEN Continue(loc)
                 ELSE Continue([loc EXCEPT
                                   !.valid_until = Some(Unwrap(parsed))])
            ELSE Return(Err("DateTimeParseError", "valid-until"))

\* "valid-until"
LineValidUntil(loc, strs) ==
    IF Len(strs) # 3 THEN Return(Panic("assertion failed"))
    ELSE LET parsed == ParseDateTime(Tok(strs, 1), Tok(strs, 2))
         IN IF IsSome(parsed)
            THEN Continue([loc EXCEPT !.valid_until = Some(Unwrap(parsed))])
            ELSE Return(Err("DateTimeParseError", "valid-until"))

LimitReached_OffByOne(n) == n > ONION_ROUTER_LIMIT

LimitReached_Never(n) == FALSE

\* onion_routers.len() >= ONION_ROUTER_LIMIT
LimitReached(n) == n >= ONION_ROUTER_LIMIT

\* the construction Some(OnionRouter { nickname: strs[1].to_string(), .. })
\* of the "r" arm, in the order the fields are evaluated
NewOnionRouter(strs) ==
    IF Len(strs) < 6 THEN Panic("index out of bounds")
    ELSE IF ~IsSome(ParseIpv4(Tok(strs, 5)))
    THEN Panic("valid IPv4 address")
    ELSE IF Len(strs) < 7 THEN Panic("index out of bounds")
    ELSE IF ~IsSome(ParseU16(Tok(strs, 6)))
    THEN Panic("valid (OR) port number")
    ELSE IF Len(strs) < 8 THEN Panic("index out of bounds")
    ELSE IF ~IsSome(ParseU16(Tok(strs, 7)))
    THEN Panic("valid (Dir) port number")
    ELSE Ok(OnionRouter(Tok(strs, 1),
                        Unwrap(ParseIpv4(Tok(strs, 5))),
                        Unwrap(ParseU16(Tok(strs, 6))),
                        Unwrap(ParseU16(Tok(strs, 7))),
                        FlagsEmpty))

\* "r"
LineR(loc, strs) ==
    LET tmp == loc.tmp_onion_router
        push == IsSome(tmp) /\ is_available(Unwrap(tmp))
        ors == IF push THEN Append(loc.onion_routers, Unwrap(tmp))
               ELSE loc.onion_routers
        new == NewOnionRouter(strs)
    IN IF push /\ LimitReached(Len(ors))
       THEN Break([loc EXCEPT !.tmp_onion_router = None,
                              !.onion_routers = ors])
       ELSE IF new.kind = "Ok"
            THEN Continue([loc EXCEPT !.tmp_onion_router = Some(new.value),
                                      !.onion_routers = ors])
            ELSE Return(new)

\* for flag_index in 1..strs.len() { or.flags.insert(strs[flag_index].into()) }
\* from flag_index on; None when a label reaches unreachable!()
RECURSIVE InsertFlags(_, _, _)
InsertFlags(flags, strs, flag_index) ==
    IF flag_index >= Len(strs) THEN Some(flags)
    ELSE LET f == FlagsFrom(Tok(strs, flag_index))
         IN IF IsSome(f)
            THEN InsertFlags(FlagsInsert(flags, Unwrap(f)), strs,
                             flag_index + 1)
            ELSE None

\* "s"
LineS(loc, strs) ==
    IF IsSome(loc.tmp_onion_router)
    THEN LET or == Unwrap(loc.tmp_onion_router)
             flags == InsertFlags(or.flags, strs, 1)
         IN IF IsSome(flags)
            THEN Continue([loc EXCEPT !.tmp_onion_router =
                               Some([or EXCEPT !.flags = Unwrap(flags)])])
            ELSE Return(Panic("entered unreachable code"))
    ELSE Return(Panic("No tmp_onion_router exists"))

LineOther_DropsRecord(loc, strs) ==
    Continue([loc EXCEPT !.tmp_onion_router = None])

\* the arm _ => { /* TODO */ } of any other keyword
LineOther(loc, strs) == Continue(loc)

\* the body of for line in consensus.lines(); strs is the result of
\* line.split_whitespace().collect()
ProcessLine(loc, strs) ==
    IF Len(strs) = 0 THEN Return(Panic("index out of bounds"))
    ELSE IF Tok(strs, 0) = "network-status-version" THEN LineVersion(loc, strs)
    ELSE IF Tok(strs, 0) = "vote-status" THEN LineVoteStatus(loc, strs)
    ELSE IF Tok(strs, 0) = "valid-after" THEN LineValidAfter(loc, strs)
    ELSE IF Tok(strs, 0) = "valid-until" THEN LineValidUntil(loc, strs)
    ELSE IF Tok(strs, 0) = "r" THEN LineR(loc, strs)
    ELSE IF Tok(strs, 0) = "s" THEN LineS(loc, strs)
    ELSE LineOther(loc, strs)

FinalRouters_DropsLast(loc) == loc.onion_routers

\* the code after the loop: the record in progress is finalized, then
\* Ok(Consensus { valid_after.unwrap(), valid_until.unwrap(), .. })
FinalRouters(loc) ==
    IF IsSome(loc.tmp_onion_router)
       /\ is_available(Unwrap(loc.tmp_onion_router))
    THEN Append(loc.onion_routers, Unwrap(loc.tmp_onion_router))
    ELSE loc.onion_routers

FinalResult(loc) ==
    IF ~IsSome(loc.valid_after) \/ ~IsSome(loc.valid_until)
    THEN Panic("called Option::unwrap() on a None value")
    ELSE Ok(Consensus(Unwrap(loc.valid_after), Unwrap(loc.valid_until),
                      FinalRouters(loc)))

\* the loop from line k of lines on, then the code after the loop
RECURSIVE ScanFrom(_, _, _)
ScanFrom(loc, lines, k) ==
    IF k > Len(lines) THEN FinalResult(loc)
    ELSE LET out == ProcessLine(loc, lines[k])
         IN IF out.ctl = "next" THEN ScanFrom(out.loc, lines, k + 1)
            ELSE IF out.ctl = "break" THEN FinalResult(out.loc)
            ELSE out.res

\* parse_consensus_document on the document with the lines lines
parse_consensus_document(lines) == ScanFrom(InitLocals, lines, 1)

\* ------------------------------------------------------------------------
\* Input documents.  A document is a fixed head (optionally the four
\* header lines, then a number of well-formed relay blocks) followed by up
\* to MaxTail lines chosen freely from TailLines.  Lines are given as
\* their whitespace-separated tokens.
\* ------------------------------------------------------------------------
HeaderLines ==
    << <<"network-status-version", "3", "microdesc">>,
       <<"vote-status", "consensus">>,
       <<"valid-after", "2024-01-01", "00:00:00">>,
       <<"valid-until", "2024-01-02", "00:00:00">> >>

RLine(nickname, dir_port) ==
    <<"r", nickname, "AAAA", "2024-01-01", "00:00:00", "10.0.0.1", "9001",
      dir_port>>

SGuard == <<"s", "Fast", "Guard", "Running", "Stable", "Valid">>
SNoGuard == <<"s", "Fast", "Running", "Stable", "Valid">>
SNoValid == <<"s", "Fast", "Guard", "Running", "Stable">>

TailLines ==
    { <<"network-status-version", "3", "microdesc">>,
      <<"network-status-version", "2", "microdesc">>,
      <<"network-status-version", "3">>,
      <<"vote-status", "consensus">>,
      <<"vote-status", "vote">>,
      <<"vote-status">>,
      <<"valid-after", "2024-01-01", "00:00:00">>,
      <<"valid-after", "2024-01-03", "00:00:00">>,
      <<"valid-after", "2024-13-01", "00:00:00">>,
      <<"valid-after", "2024-01-01">>,
      <<"valid-until", "2024-01-03", "12:00:00">>,
      <<"valid-until", "2024-01-02", "25:00:00">>,
      <<"valid-until", "2024-01-02">>,
      RLine("relayA", "9030"),
      RLine("relayB", "0"),
      <<"r", "relayC", "AAAA", "2024-01-01", "00:00:00", "10.0.0.1", "9001">>,
      <<"r", "relayC", "AAAA", "2024-01-01", "00:00:00", "10.0.0.256", "9001",
        "9030">>,
      <<"r", "relayC", "AAAA", "2024-01-01", "00:00:00", "10.0.0.2", "9001",
        "65536">>,
      SGuard, SNoGuard, SNoValid,
      <<"s", "Guard">>,
      <<"s", "Fast", "BogusFlag">>,
      <<"known-flags", "Authority", "BadExit">>,
      <<>> }

HeadConfigs ==
    [header : BOOLEAN,
     blocks : (0 .. MaxSmallBlocks)
              \union (ONION_ROUTER_LIMIT .. ONION_ROUTER_LIMIT + MaxOverLimit),
     guard : BOOLEAN]

HeaderLen(cfg) == IF cfg.header THEN Len(HeaderLines) ELSE 0

HeadLen(cfg) == HeaderLen(cfg) + 2 * cfg.blocks

\* the k-th line of the head, k in 1 .. HeadLen(cfg)
HeadLine(cfg, k) ==
    IF k <= HeaderLen(cfg) THEN HeaderLines[k]
    ELSE LET j == k - HeaderLen(cfg)
         IN IF j % 2 = 1
            THEN RLine("relay" \o ToString((j + 1) \div 2), "9030")
            ELSE IF cfg.guard THEN SGuard ELSE SNoGuard

VARIABLES
    \* the document read so far: head configuration, number of head lines
    \* read, and the tail lines read
    pre, pos, tail,
    \* parse_consensus_document: control state, locals, return value
    pc, valid_after, valid_until, tmp_onion_router, onion_routers, result

parseVars == <<pre, pos, tail, pc, valid_after, valid_until,
               tmp_onion_router, onion_routers, result>>

\* the lines consumed so far by the loop
HeadPrefix(cfg, n) == [k \in 1 .. n |-> HeadLine(cfg, k)]

Consumed == HeadPrefix(pre, pos) \o tail

CurrentLocals == Locals(valid_after, valid_until, tmp_onion_router,
                        onion_routers)

InitParse ==
    /\ pre \in HeadConfigs
    /\ pos = 0
    /\ tail = <<>>
    /\ pc = "scan"
    /\ valid_after = None
    /\ valid_until = None
    /\ tmp_onion_router = None
    /\ onion_routers = <<>>
    /\ result = NoResult

\* one iteration of the loop on the line with tokens strs
Iterate(strs) ==
    LET out == ProcessLine(CurrentLocals, strs)
    IN /\ valid_after' = out.loc.valid_after
       /\ valid_until' = out.loc.valid_until
       /\ tmp_onion_router' = out.loc.tmp_onion_router
       /\ onion_routers' = out.loc.onion_routers
       /\ result' = out.res
       /\ pc' = IF out.ctl = "next" THEN "scan"
                ELSE IF out.ctl = "break" THEN "after_loop"
                ELSE "returned"

\* the loop reads the next line of the head
ReadHeadLine ==
    /\ pc = "scan"
    /\ pos < HeadLen(pre)
    /\ pos' = pos + 1
    /\ Iterate(HeadLine(pre, pos + 1))
    /\ UNCHANGED <<pre, tail>>

\* the loop reads a line that follows the head
ReadTailLine ==
    /\ pc = "scan"
    /\ pos = HeadLen(pre)
    /\ Len(tail) < MaxTail
    /\ \E strs \in TailLines :
          /\ tail' = Append(tail, strs)
          /\ Iterate(strs)
    /\ UNCHANGED <<pre, pos>>

\* consensus.lines() is exhausted: the document is the lines read so far
EndOfInput ==
    /\ pc = "scan"
    /\ pc' = "after_loop"
    /\ UNCHANGED <<pre, pos, tail, valid_after, valid_until,
                   tmp_onion_router, onion_routers, result>>

\* the code after the loop, up to the return
Finalize ==
    /\ pc = "after_loop"
    /\ result' = FinalResult(CurrentLocals)
    /\ pc' = "returned"
    /\ valid_after' = None
    /\ valid_until' = None
    /\ tmp_onion_router' = None
    /\ onion_routers' = <<>>
    /\ UNCHANGED <<pre, pos, tail>>

\* ------------------------------------------------------------------------
\* Consensus::choose_guard_relay
\* ------------------------------------------------------------------------
VARIABLES
    \* &self, and the locals uniform, attempted and i (None outside an
    \* iteration), the control state and the return value
    self, sel_pc, uniform, attempted, i, sel_result

selVars == <<self, sel_pc, uniform, attempted, i, sel_result>>

\* ------------------------------------------------------------------------
\* The cache directory and the calls of cache_consensus_document,
\* get_consensus_document_from_cache and main that work on it
\* ------------------------------------------------------------------------
VARIABLES
    \* store: the cacache entry under each key (None: no entry)
    \* call: per process, the cache call it is in: its arguments, its
    \*       local valid_until, its position and its return value, and
    \*       seen: the value of last_put when it read the valid_until entry,
    \*       alone: no other put has been in progress during this put
    \* main: the locals and the position of the run of main in progress
    \* last_put: the arguments of the latest put when that call has returned
    \*           and no later put has begun (None otherwise)
    \* written_by: per key, the arguments of the put that wrote the entry
    store, call, main, last_put, written_by

cacheVars == <<store, call, main, last_put, written_by>>

vars == <<parseVars, selVars, cacheVars>>

CACHE_KEY_BODY == "consensus_document_body"
CACHE_KEY_VALID_UNTIL == "consensus_document_valid_until"
CacheKeys == {CACHE_KEY_BODY, CACHE_KEY_VALID_UNTIL}

EmptyStore == [k \in CacheKeys |-> None]

IdleCall ==
    [op |-> "none", pc |-> "idle", consensus |-> <<>>, t |-> 0, now |-> 0,
     valid_until |-> 0, seen |-> None, alone |-> TRUE,
     ret |-> NoResult]

IdleMain == [pc |-> "idle", now |-> 0, document |-> <<>>, consensus |-> NoResult]

\* no cache call is made by the parser or by choose_guard_relay
NoCache ==
    /\ store = EmptyStore
    /\ call = [p \in {"main"} |-> IdleCall]
    /\ main = IdleMain
    /\ last_put = None
    /\ written_by = EmptyStore


\* rand::distributions::Uniform::new(low, high) samples from [low, high);
\* high_is_max: high is usize::MAX, the value of 0 - 1 without overflow
\* checks
Uniform(low, high, high_is_max) ==
    [low |-> low, high |-> high, high_is_max |-> high_is_max]

NoUniform == Uniform(0, 0, FALSE)

\* the values rng.sample(uniform) can return
SampleRange(u) ==
    IF u.high_is_max THEN 0 .. WrapSample ELSE u.low .. (u.high - 1)

\* self.onion_routers.get(idx)
Get(ors, idx) == IF idx < Len(ors) THEN Some(ors[idx + 1]) ELSE None

\* the relays the parser retains: available, with or without Guard
AvailableRelay(k, guard) ==
    OnionRouter("relay" \o ToString(k), <<10, 0, 0, 1>>, 9001, 9030,
                IF guard THEN BitOr(StableMask, GUARD) ELSE StableMask)

RelaySeqs ==
    UNION { { [k \in 1 .. n |-> AvailableRelay(k, g[k])] :
                g \in [1 .. n -> BOOLEAN] } : n \in 0 .. MaxRelays }

SelectInputs == { Consensus(1704067200, 1704153600, ors) : ors \in RelaySeqs }

NoSelf == Consensus(0, 0, <<>>)

InitSelectVars ==
    /\ sel_pc = "idle"
    /\ uniform = NoUniform
    /\ attempted = 0
    /\ i = None
    /\ sel_result = NoResult

\* the parser model never calls the selector
Init ==
    /\ InitParse
    /\ self = NoSelf
    /\ InitSelectVars
    /\ NoCache

\* choose_guard_relay is called on a consensus the parser returned
InitSelect ==
    /\ self \in SelectInputs
    /\ InitSelectVars
    /\ NoCache
    /\ pre = [header |-> FALSE, blocks |-> 0, guard |-> FALSE]
    /\ pos = 0
    /\ tail = <<>>
    /\ pc = "returned"
    /\ valid_after = None
    /\ valid_until = None
    /\ tmp_onion_router = None
    /\ onion_routers = <<>>
    /\ result = Ok(self)

\* let uniform = Uniform::new(0, self.onion_routers.len() - 1);
\* let mut attempted = 0;
\* overflow_checks: the build traps the usize underflow of 0 - 1
\* (debug profile) instead of wrapping (release profile)
NewUniform(len, overflow_checks) ==
    IF len = 0
    THEN IF overflow_checks
         THEN Panic("attempt to subtract with overflow")
         ELSE Ok(Uniform(0, 0, TRUE))
    ELSE IF 0 >= len - 1
         THEN Panic("Uniform::new called with low >= high")
         ELSE Ok(Uniform(0, len - 1, FALSE))

ChooseStart ==
    /\ sel_pc = "idle"
    /\ \E overflow_checks \in BOOLEAN :
          LET u == NewUniform(Len(self.onion_routers), overflow_checks)
          IN IF u.kind = "Ok"
             THEN /\ uniform' = u.value
                  /\ sel_pc' = "loop"
                  /\ sel_result' = sel_result
             ELSE /\ uniform' = uniform
                  /\ sel_pc' = "done"
                  /\ sel_result' = u
    /\ attempted' = 0
    /\ UNCHANGED <<self, i>>

\* while attempted < 100
LoopCond(n) == n < MaxAttempts

\* let i = rng.sample(uniform);
Sample ==
    /\ sel_pc = "loop"
    /\ i = None
    /\ LoopCond(attempted)
    /\ \E idx \in SampleRange(uniform) : i' = Some(idx)
    /\ UNCHANGED <<self, sel_pc, uniform, attempted, sel_result>>

Accepts_AnyRelay(ors, idx) == IsSome(Get(ors, idx))

\* if let Some(or) = self.onion_routers.get(i) {
\*     if or.flags.contains(Flags::GUARD) { ..
Accepts(ors, idx) ==
    /\ IsSome(Get(ors, idx))
    /\ FlagsContains(Unwrap(Get(ors, idx)).flags, GUARD)

\* the rest of the iteration: return Ok(or), or attempted += 1
Check ==
    /\ sel_pc = "loop"
    /\ IsSome(i)
    /\ IF Accepts(self.onion_routers, Unwrap(i))
       THEN /\ sel_result' = Ok([index |-> Unwrap(i),
                                 or |-> Unwrap(Get(self.onion_routers,
                                                   Unwrap(i)))])
            /\ sel_pc' = "done"
            /\ attempted' = attempted
       ELSE /\ sel_result' = sel_result
            /\ sel_pc' = sel_pc
            /\ attempted' = attempted + 1
    /\ i' = None
    /\ UNCHANGED <<self, uniform>>

\* the loop condition fails: return Err("Could not find aguard node.")
GiveUp ==
    /\ sel_pc = "loop"
    /\ i = None
    /\ ~LoopCond(attempted)
    /\ sel_result' = Err("NoGuardFound", "Could not find aguard node.")
    /\ sel_pc' = "done"
    /\ UNCHANGED <<self, uniform, attempted, i>>

\* the parser, on one document
Next ==
    \/ ReadHeadLine /\ UNCHANGED <<selVars, cacheVars>>
    \/ ReadTailLine /\ UNCHANGED <<selVars, cacheVars>>
    \/ EndOfInput /\ UNCHANGED <<selVars, cacheVars>>
    \/ Finalize /\ UNCHANGED <<selVars, cacheVars>>

\* one call of choose_guard_relay
NextSelect ==
    \/ ChooseStart /\ UNCHANGED <<parseVars, cacheVars>>
    \/ Sample /\ UNCHANGED <<parseVars, cacheVars>>
    \/ Check /\ UNCHANGED <<parseVars, cacheVars>>
    \/ GiveUp /\ UNCHANGED <<parseVars, cacheVars>>

Spec == Init /\ [][Next]_vars

SpecSelect == InitSelect /\ [][NextSelect]_vars

\* the parser on the documents with a short head
InitShort == Init /\ pre.blocks <= MaxSmallBlocks

SpecShort == InitShort /\ [][Next]_vars

\* ------------------------------------------------------------------------
\* cacache::write / cacache::read on cache_dir(), and the conversions
\* ------------------------------------------------------------------------
\* the bytes of an entry: a UTF-8 encoded text, or bytes that are not UTF-8
Utf8(text) == [utf8 |-> TRUE, text |-> text]
NotUtf8 == [utf8 |-> FALSE]

\* String::from_utf8(bytes): None stands for Err(FromUtf8Error)
FromUtf8(bytes) == IF bytes.utf8 THEN Some(bytes.text) ELSE None

\* cacache::write(cache_dir(), key, data) that returned Ok
CacheWrite(st, key, data) == [st EXCEPT ![key] = Some(data)]

\* cacache::read(cache_dir(), key): None stands for Err(EntryNotFound)
CacheRead(st, key) == st[key]

\* DateTime<Utc>::to_rfc3339 of the instants of the documents below
Rfc3339Table ==
    (1704067200 :> "2024-01-01T00:00:00+00:00")
    @@ (1704153600 :> "2024-01-02T00:00:00+00:00")
    @@ (1704283200 :> "2024-01-03T12:00:00+00:00")
to_rfc3339(t) == Rfc3339Table[t]

\* DateTime::parse_from_rfc3339: the instant of a well-formed timestamp,
\* whatever its offset; None stands for Err(ParseError)
ParseRfc3339Table ==
    ("2024-01-01T00:00:00+00:00" :> 1704067200)
    @@ ("2024-01-02T00:00:00+00:00" :> 1704153600)
    @@ ("2024-01-03T12:00:00+00:00" :> 1704283200)
    @@ ("2024-01-02T09:00:00+09:00" :> 1704153600)
    @@ ("2024-01-03T12:00:00Z" :> 1704283200)
parse_from_rfc3339(s) ==
    IF s \in DOMAIN ParseRfc3339Table THEN Some(ParseRfc3339Table[s]) ELSE None

\* the mutation of the expiry entry used to test the claims
ValidUntilEntry_Unset(t) == NotUtf8

\* the data of the second write of cache_consensus_document
ValidUntilEntry(t) == Utf8(to_rfc3339(t))

\* the mutation of the expiry test used to test the claims
Expired_AtValidUntil(cached_valid_until, now) == cached_valid_until <= now

\* if &valid_until < now { return None; }
Expired(cached_valid_until, now) == cached_valid_until < now

\* ------------------------------------------------------------------------
\* Documents and instants of the cache calls
\* ------------------------------------------------------------------------
\* a consensus valid until 2024-01-02 00:00:00
DocumentA == HeaderLines

\* a consensus valid until 2024-01-03 12:00:00
DocumentB ==
    << <<"network-status-version", "3", "microdesc">>,
       <<"vote-status", "consensus">>,
       <<"valid-after", "2024-01-01", "00:00:00">>,
       <<"valid-until", "2024-01-03", "12:00:00">>,
       RLine("relay1", "9030"), SGuard >>

\* a vote, and a document without a valid-until line
DocumentVote == << <<"vote-status", "vote">> >>
DocumentNoValidUntil ==
    << <<"network-status-version", "3", "microdesc">>,
       <<"valid-after", "2024-01-01", "00:00:00">> >>

\* what the directory authority can answer
FetchDocuments == {DocumentA, DocumentB, DocumentVote, DocumentNoValidUntil}

\* the arguments of cache_consensus_document
PutDocuments == {DocumentA, DocumentB}
PutInstants == {1704153600, 1704283200}

\* Utc::now(): before, at and after each of the instants
Nows == {1704110400, 1704153600, 1704240000, 1704283200, 1704283201}

\* the entries a cache directory can hold when a process starts
ValidUntilEntries ==
    {None, Some(NotUtf8), Some(Utf8("not a timestamp"))}
    \cup {Some(Utf8(str)) : str \in {"2024-01-02T00:00:00+00:00",
                                      "2024-01-03T12:00:00+00:00",
                                      "2024-01-02T09:00:00+09:00",
                                      "2024-01-03T12:00:00Z"}}
BodyEntries ==
    {None, Some(NotUtf8)} \cup {Some(Utf8(d)) : d \in PutDocuments}

UnwrapPanic == Panic("called Result::unwrap() on an Err value")

\* the calls that are between their first and their last storage access
InPut(c) == c.pc \in {"write_body", "write_valid_until"}
InGet(c) == c.pc \in {"read_valid_until", "read_body"}
InCall(c) == InPut(c) \/ InGet(c)

\* ------------------------------------------------------------------------
\* cache_consensus_document(consensus, valid_until)
\* ------------------------------------------------------------------------
PutCall(consensus, t) ==
    [op |-> "put", pc |-> "write_body", consensus |-> consensus, t |-> t,
     now |-> 0, valid_until |-> 0, seen |-> None, alone |-> TRUE,
     ret |-> NoResult]

PutStart(p, consensus, t) ==
    /\ ~InCall(call[p])
    /\ call' = [q \in DOMAIN call |->
                   IF q = p
                   THEN [PutCall(consensus, t) EXCEPT !.alone =
                            \A o \in DOMAIN call : ~InPut(call[o])]
                   ELSE IF InPut(call[q])
                        THEN [call[q] EXCEPT !.alone = FALSE]
                        ELSE call[q]]
    /\ last_put' = None
    /\ UNCHANGED <<store, written_by>>

\* cacache::write(cache_dir(), CACHE_KEY_BODY, consensus).await.unwrap();
PutWriteBody(p) ==
    /\ call[p].pc = "write_body"
    /\ \E ok \in BOOLEAN :
          IF ok
          THEN /\ store' = CacheWrite(store, CACHE_KEY_BODY,
                                      Utf8(call[p].consensus))
               /\ written_by' =
                      [written_by EXCEPT ![CACHE_KEY_BODY] =
                          Some([consensus |-> call[p].consensus,
                                t |-> call[p].t])]
               /\ call' = [call EXCEPT ![p].pc = "write_valid_until"]
          ELSE /\ call' = [call EXCEPT ![p].pc = "panicked",
                                       ![p].ret = UnwrapPanic]
               /\ UNCHANGED <<store, written_by>>
    /\ UNCHANGED last_put

\* cacache::write(cache_dir(), CACHE_KEY_VALID_UNTIL,
\*                valid_until.to_rfc3339()).await.unwrap();
PutWriteValidUntil(p) ==
    /\ call[p].pc = "write_valid_until"
    /\ \E ok \in BOOLEAN :
          IF ok
          THEN /\ store' = CacheWrite(store, CACHE_KEY_VALID_UNTIL,
                                      ValidUntilEntry(call[p].t))
               /\ written_by' =
                      [written_by EXCEPT ![CACHE_KEY_VALID_UNTIL] =
                          Some([consensus |-> call[p].consensus,
                                t |-> call[p].t])]
               /\ call' = [call EXCEPT ![p].pc = "done",
                                       ![p].ret = Ok(<<>>)]
               /\ last_put' =
                      IF call[p].alone
                      THEN Some([consensus |-> call[p].consensus,
                                 t |-> call[p].t])
                      ELSE None
          ELSE /\ call' = [call EXCEPT ![p].pc = "panicked",
                                       ![p].ret = UnwrapPanic]
               /\ UNCHANGED <<store, written_by, last_put>>

\* ------------------------------------------------------------------------
\* get_consensus_document_from_cache(now)
\* ------------------------------------------------------------------------
GetCall(now) ==
    [op |-> "get", pc |-> "read_valid_until", consensus |-> <<>>, t |-> 0,
     now |-> now, valid_until |-> 0, seen |-> None, alone |-> TRUE,
     ret |-> NoResult]

GetStart(p, now) ==
    /\ ~InCall(call[p])
    /\ call' = [call EXCEPT ![p] = GetCall(now)]
    /\ UNCHANGED <<store, written_by, last_put>>

\* let valid_until = match cacache::read(.., CACHE_KEY_VALID_UNTIL).await {
\*     Ok(s) => parse_from_rfc3339(&String::from_utf8(s).unwrap()).unwrap()
\*     Err(e) => return None };
\* if &valid_until < now { return None; }
ReadValidUntil(c, st) ==
    LET read == CacheRead(st, CACHE_KEY_VALID_UNTIL)
    IN IF ~IsSome(read)
       THEN [c EXCEPT !.pc = "done", !.ret = Ok(None)]
       ELSE LET valid_until_string == FromUtf8(Unwrap(read))
            IN IF ~IsSome(valid_until_string)
               THEN [c EXCEPT !.pc = "panicked", !.ret = UnwrapPanic]
               ELSE LET parsed == parse_from_rfc3339(Unwrap(valid_until_string))
                    IN IF ~IsSome(parsed)
                       THEN [c EXCEPT !.pc = "panicked", !.ret = UnwrapPanic]
                       ELSE IF Expired(Unwrap(parsed), c.now)
                            THEN [c EXCEPT !.pc = "done", !.ret = Ok(None),
                                           !.valid_until = Unwrap(parsed)]
                            ELSE [c EXCEPT !.pc = "read_body",
                                           !.valid_until = Unwrap(parsed)]

GetReadValidUntil(p) ==
    /\ call[p].pc = "read_valid_until"
    /\ call' = [call EXCEPT ![p] = [ReadValidUntil(call[p], store)
                                        EXCEPT !.seen = last_put]]
    /\ UNCHANGED <<store, written_by, last_put>>

\* Some(String::from_utf8(
\*     cacache::read(cache_dir(), CACHE_KEY_BODY).await.unwrap()).unwrap())
ReadBody(c, st) ==
    LET read == CacheRead(st, CACHE_KEY_BODY)
    IN IF ~IsSome(read)
       THEN [c EXCEPT !.pc = "panicked", !.ret = UnwrapPanic]
       ELSE LET body == FromUtf8(Unwrap(read))
            IN IF ~IsSome(body)
               THEN [c EXCEPT !.pc = "panicked", !.ret = UnwrapPanic]
               ELSE [c EXCEPT !.pc = "done", !.ret = Ok(Some(Unwrap(body)))]

GetReadBody(p) ==
    /\ call[p].pc = "read_body"
    /\ call' = [call EXCEPT ![p] = ReadBody(call[p], store)]
    /\ UNCHANGED <<store, written_by, last_put>>

\* ------------------------------------------------------------------------
\* The cache calls of one process, on any cache directory
\* ------------------------------------------------------------------------
InitCache ==
    /\ InitParse
    /\ self = NoSelf
    /\ InitSelectVars
    /\ pre = [header |-> FALSE, blocks |-> 0, guard |-> FALSE]
    /\ \E body \in BodyEntries, expiry \in ValidUntilEntries :
          store = [k \in CacheKeys |->
                      IF k = CACHE_KEY_BODY THEN body ELSE expiry]
    /\ call = [p \in {"main"} |-> IdleCall]
    /\ main = IdleMain
    /\ last_put = None
    /\ written_by = EmptyStore

NextCache ==
    \/ \E p \in DOMAIN call, consensus \in PutDocuments, t \in PutInstants :
          PutStart(p, consensus, t) /\ UNCHANGED <<parseVars, selVars, main>>
    \/ \E p \in DOMAIN call :
          PutWriteBody(p) /\ UNCHANGED <<parseVars, selVars, main>>
    \/ \E p \in DOMAIN call :
          PutWriteValidUntil(p) /\ UNCHANGED <<parseVars, selVars, main>>
    \/ \E p \in DOMAIN call, now \in Nows :
          GetStart(p, now) /\ UNCHANGED <<parseVars, selVars, main>>
    \/ \E p \in DOMAIN call :
          GetReadValidUntil(p) /\ UNCHANGED <<parseVars, selVars, main>>
    \/ \E p \in DOMAIN call :
          GetReadBody(p) /\ UNCHANGED <<parseVars, selVars, main>>

SpecCache == InitCache /\ [][NextCache]_vars

\* ------------------------------------------------------------------------
\* The cache calls of two processes on one cache directory, interleaved
\* at the storage accesses (each cacache call is awaited before the next)
\* ------------------------------------------------------------------------
Processes == {"main", "other"}

InitConcurrent ==
    /\ InitParse
    /\ self = NoSelf
    /\ InitSelectVars
    /\ pre = [header |-> FALSE, blocks |-> 0, guard |-> FALSE]
    /\ store = EmptyStore
    /\ call = [p \in Processes |-> IdleCall]
    /\ main = IdleMain
    /\ last_put = None
    /\ written_by = EmptyStore

SpecConcurrent == InitConcurrent /\ [][NextCache]_vars

\* ------------------------------------------------------------------------
\* main, run after run by one process on a cache directory that is empty
\* before the first run
\* ------------------------------------------------------------------------
\* let now = Utc::now();
\* ... get_consensus_document_from_cache(&now).await
MainStart(now) ==
    /\ main.pc \in {"idle", "done", "panicked"}
    /\ main' = [pc |-> "cache_read", now |-> now, document |-> <<>>,
                consensus |-> NoResult]
    /\ GetStart("main", now)

\* if let Some(document) = ... {
\*     parse_consensus_document(&document).unwrap()
MainUseCached ==
    /\ main.pc = "cache_read"
    /\ call["main"].pc = "done"
    /\ IsSome(call["main"].ret.value)
    /\ LET document == Unwrap(call["main"].ret.value)
           parsed == parse_consensus_document(document)
       IN main' = [main EXCEPT !.document = document,
                               !.consensus = parsed,
                               !.pc = IF parsed.kind = "Ok"
                                      THEN "assert" ELSE "panicked"]
    /\ UNCHANGED <<store, call, last_put, written_by>>

\* the mutation of the cached expiry used to test the claims
CachedValidUntil_ValidAfter(consensus) == consensus.valid_after

\* cache_consensus_document(&document, &consensus.valid_until)
CachedValidUntil(consensus) == consensus.valid_until

\* } else {
\*     let res = client.get(da.consensus_url()).send().await.unwrap();
\*     let document = res.text().await.unwrap();
\*     let consensus = parse_consensus_document(&document).unwrap();
\*     cache_consensus_document(&document, &consensus.valid_until).await;
\* response: None when the request or the reading of its text fails
MainDownload(response) ==
    /\ main.pc = "cache_read"
    /\ call["main"].pc = "done"
    /\ ~IsSome(call["main"].ret.value)
    /\ IF ~IsSome(response)
       THEN /\ main' = [main EXCEPT !.pc = "panicked"]
            /\ UNCHANGED <<store, call, last_put, written_by>>
       ELSE LET document == Unwrap(response)
                parsed == parse_consensus_document(document)
            IN IF parsed.kind # "Ok"
               THEN /\ main' = [main EXCEPT !.document = document,
                                            !.consensus = parsed,
                                            !.pc = "panicked"]
                    /\ UNCHANGED <<store, call, last_put, written_by>>
               ELSE /\ main' = [main EXCEPT !.document = document,
                                            !.consensus = parsed,
                                            !.pc = "cache_write"]
                    /\ PutStart("main", document,
                                CachedValidUntil(parsed.value))

\* a panic inside a cache call ends the run
MainAbort ==
    /\ main.pc \in {"cache_read", "cache_write"}
    /\ call["main"].pc = "panicked"
    /\ main' = [main EXCEPT !.pc = "panicked"]
    /\ UNCHANGED <<store, call, last_put, written_by>>

\* assert!(consensus.valid_after <= now && now <= consensus.valid_until);
MainAssert ==
    /\ \/ main.pc = "assert"
       \/ main.pc = "cache_write" /\ call["main"].pc = "done"
    /\ main' = [main EXCEPT !.pc =
                    IF /\ main.consensus.value.valid_after <= main.now
                       /\ main.now <= main.consensus.value.valid_until
                    THEN "done" ELSE "panicked"]
    /\ UNCHANGED <<store, call, last_put, written_by>>

InitMain ==
    /\ InitParse
    /\ self = NoSelf
    /\ InitSelectVars
    /\ pre = [header |-> FALSE, blocks |-> 0, guard |-> FALSE]
    /\ NoCache

NextMain ==
    \/ \E now \in Nows : MainStart(now) /\ UNCHANGED <<parseVars, selVars>>
    \/ GetReadValidUntil("main") /\ UNCHANGED <<parseVars, selVars, main>>
    \/ GetReadBody("main") /\ UNCHANGED <<parseVars, selVars, main>>
    \/ MainUseCached /\ UNCHANGED <<parseVars, selVars>>
    \/ \E response \in {None} \cup {Some(d) : d \in FetchDocuments} :
          MainDownload(response) /\ UNCHANGED <<parseVars, selVars>>
    \/ PutWriteBody("main") /\ UNCHANGED <<parseVars, selVars, main>>
    \/ PutWriteValidUntil("main") /\ UNCHANGED <<parseVars, selVars, main>>
    \/ MainAbort /\ UNCHANGED <<parseVars, selVars>>
    \/ MainAssert /\ UNCHANGED <<parseVars, selVars>>

SpecMain == InitMain /\ [][NextMain]_vars

\* ========================================================================
\* Properties
\* ========================================================================
\* the flag with bit position n is set
HasBit(flags, n) == Bit(flags, n) = 1

\* the line read by the latest iteration of the loop
LastRead ==
    IF tail # <<>> THEN tail[Len(tail)]
    ELSE IF pos > 0 THEN HeadLine(pre, pos) ELSE <<>>

\* a step that is one iteration of the loop
ReadsLine == pc = "scan" /\ (pos' # pos \/ tail' # tail)

\* the timestamp written on a valid-after / valid-until line
StampOf(strs) == DateTable[strs[2]] + TimeTable[strs[3]]

\* the timestamp of the last line with keyword kw among lines[1 .. k];
\* -1 when there is none
LastStamp(lines, kw, k) ==
    LET at == {j \in 1 .. k : Len(lines[j]) = 3 /\ lines[j][1] = kw}
    IN IF at = {} THEN -1
       ELSE StampOf(lines[CHOOSE j \in at : \A m \in at : m <= j])

\* C1: the relay sequence of a returned Consensus has at most 100
\* (ONION_ROUTER_LIMIT) relays, whatever the number of r blocks of the
\* document, and the sequence under construction never exceeds it either.
C1_Cap ==
    /\ Len(onion_routers) <= 100
    /\ result.kind = "Ok" => Len(result.value.onion_routers) <= 100

\* a document with more than 100 available r blocks was parsed
C1_Witness ==
    /\ result.kind = "Ok"
    /\ pre.blocks > 100
    /\ Len(result.value.onion_routers) = 100

\* C2: every relay of a returned Consensus has the flags Valid, Running,
\* Fast and Stable and a dir_port greater than 0.
C2_AvailabilityFilter ==
    result.kind = "Ok" =>
        \A k \in 1 .. Len(result.value.onion_routers) :
            LET or == result.value.onion_routers[k]
            IN /\ HasBit(or.flags, 11)
               /\ HasBit(or.flags, 10)
               /\ HasBit(or.flags, 3)
               /\ HasBit(or.flags, 8)
               /\ or.dir_port > 0

\* a document with a record without Valid or with dir_port 0 was parsed,
\* and other records were retained
C2_Witness ==
    /\ result.kind = "Ok"
    /\ Len(result.value.onion_routers) >= 1
    /\ Len(tail) = 2
    /\ tail[1][1] = "r"
    /\ \/ tail[1] = RLine("relayB", "0") /\ tail[2] = SGuard
       \/ tail[2] = SNoValid

\* C3: on a consensus of exactly one relay, which has the Guard flag,
\* choose_guard_relay returns that relay.
C3_SingleGuardReturned ==
    (/\ sel_pc = "done"
     /\ Len(self.onion_routers) = 1
     /\ HasBit(self.onion_routers[1].flags, 4))
    => (/\ sel_result.kind = "Ok"
        /\ sel_result.value.index = 0
        /\ sel_result.value.or = self.onion_routers[1])

\* C4: when no relay of the consensus has the Guard flag (the sequence may
\* be empty), choose_guard_relay ends, after at most 100 draws, with the
\* error NoGuardFound as a value: no abort and no relay.
C4_NoGuardFound ==
    (/\ sel_pc = "done"
     /\ \A k \in 1 .. Len(self.onion_routers) :
            ~HasBit(self.onion_routers[k].flags, 4))
    => (/\ sel_result.kind = "Err"
        /\ sel_result.err = "NoGuardFound"
        /\ attempted <= 100)

\* C5: the index drawn by choose_guard_relay ranges over every valid index
\* 0 .. length - 1 of the relay sequence, the last one included.
C5_FullIndexRange ==
    sel_pc = "loop" =>
        \A idx \in 0 .. (Len(self.onion_routers) - 1) :
            idx \in SampleRange(uniform)

\* C6: whenever choose_guard_relay returns Ok(relay), the relay is an
\* element of the relay sequence and has the Guard flag; and the iteration
\* that draws a relay with the Guard flag returns it, without a further
\* draw.
C6_ReturnsDrawnGuard ==
    /\ [](sel_result.kind = "Ok" =>
            /\ sel_pc = "done"
            /\ sel_result.value.index \in 0 .. (Len(self.onion_routers) - 1)
            /\ sel_result.value.or
                   = self.onion_routers[sel_result.value.index + 1]
            /\ HasBit(sel_result.value.or.flags, 4))
    /\ [][(/\ IsSome(i)
           /\ Unwrap(i) < Len(self.onion_routers)
           /\ HasBit(self.onion_routers[Unwrap(i) + 1].flags, 4))
          => (/\ sel_pc' = "done"
              /\ sel_result'.kind = "Ok"
              /\ sel_result'.value.index = Unwrap(i)
              /\ attempted' = attempted)]_vars

\* a relay with the Guard flag was returned after draws that were rejected
C6_Witness ==
    /\ sel_result.kind = "Ok"
    /\ attempted > 0
    /\ sel_result.value.index > 0

\* C7: when valid-after or valid-until was never seen, the code after the
\* loop returns the error MissingField as a value.
C7_MissingField ==
    [][(/\ pc = "after_loop"
        /\ (~IsSome(valid_after) \/ ~IsSome(valid_until)))
       => (/\ result'.kind = "Err"
           /\ result'.err = "MissingField")]_vars

FlagLabels ==
    {"Authority", "BadExit", "Exit", "Fast", "Guard", "HSDir", "MiddleOnly",
     "NoEdConsensus", "Stable", "StaleDesc", "Running", "Valid", "V2Dir"}

\* C9: an s line, read while a relay record is in progress, with a token
\* outside the thirteen labels makes the parser return the error
\* UnknownFlag as a value.
C9_UnknownFlag ==
    [][(/\ ReadsLine
        /\ IsSome(tmp_onion_router)
        /\ Len(LastRead') >= 2
        /\ LastRead'[1] = "s"
        /\ \E k \in 2 .. Len(LastRead') : LastRead'[k] \notin FlagLabels)
       => (/\ result'.kind = "Err"
           /\ result'.err = "UnknownFlag")]_vars

\* an r line the parser cannot build a relay record from
MalformedR(strs) ==
    /\ Len(strs) >= 1
    /\ strs[1] = "r"
    /\ \/ Len(strs) < 8
       \/ strs[6] \notin DOMAIN Ipv4Table
       \/ strs[7] \notin DOMAIN U16Table
       \/ strs[8] \notin DOMAIN U16Table

\* C10: an r line with fewer than 8 tokens or an unparseable address or
\* port, and an s line read while no relay record is in progress, make the
\* parser return the error MalformedRelayLine as a value.
C10_MalformedRelayLine ==
    [][(/\ ReadsLine
        /\ pc' # "after_loop"
        /\ \/ MalformedR(LastRead')
           \/ /\ Len(LastRead') >= 1
              /\ LastRead'[1] = "s"
              /\ ~IsSome(tmp_onion_router))
       => (/\ result'.kind = "Err"
           /\ result'.err = "MalformedRelayLine")]_vars

\* a network-status-version line whose tokens 1 and 2 are not 3, microdesc
UnsupportedVersionLine(strs) ==
    /\ Len(strs) >= 1
    /\ strs[1] = "network-status-version"
    /\ ~(Len(strs) >= 3 /\ strs[2] = "3" /\ strs[3] = "microdesc")

\* C11: the iteration that reads a network-status-version line whose
\* tokens 1 and 2 are not 3, microdesc makes the parser return
\* Err(UnsupportedDocumentFormatVersion), whatever was read before; no
\* Consensus is returned.
C11_UnsupportedVersion ==
    [][(ReadsLine /\ UnsupportedVersionLine(LastRead'))
       => (/\ pc' = "returned"
           /\ result'.kind = "Err"
           /\ result'.err = "UnsupportedDocumentFormatVersion")]_vars

\* the keywords the parser dispatches on
Keywords ==
    {"network-status-version", "vote-status", "valid-after", "valid-until",
     "r", "s"}

\* a line whose first token is not a recognized keyword
Unrecognized(strs) == Len(strs) >= 1 /\ strs[1] \notin Keywords

\* lines without its unrecognized lines
RECURSIVE WithoutUnrecognized(_, _)
WithoutUnrecognized(lines, k) ==
    IF k > Len(lines) THEN <<>>
    ELSE IF Unrecognized(lines[k]) THEN WithoutUnrecognized(lines, k + 1)
    ELSE <<lines[k]>> \o WithoutUnrecognized(lines, k + 1)

\* C14: the iteration that reads a line with an unrecognized keyword
\* leaves valid_after, valid_until, the record in progress and the retained
\* relays unchanged and raises no error; the result of the parse equals
\* the result on the document without those lines.
C14_UnrecognizedIgnored ==
    /\ [][(ReadsLine /\ Unrecognized(LastRead'))
          => (/\ pc' = "scan"
              /\ result' = result
              /\ UNCHANGED <<valid_after, valid_until, tmp_onion_router,
                             onion_routers>>)]_vars
    /\ [](pc = "returned" =>
            result = parse_consensus_document(
                         WithoutUnrecognized(Consumed, 1)))

\* an unrecognized line stood between the r line of a record and an s line
\* of the same record, and the record was retained with the flag
C14_Witness ==
    /\ result.kind = "Ok"
    /\ tail = << <<"known-flags", "Authority", "BadExit">>, <<"s", "Guard">> >>
    /\ pre.blocks = 1
    /\ ~pre.guard
    /\ Len(result.value.onion_routers) = 1
    /\ HasBit(result.value.onion_routers[1].flags, 4)

IsRLine(strs) == Len(strs) >= 1 /\ strs[1] = "r"

IsSLine(strs) == Len(strs) >= 1 /\ strs[1] = "s"

\* the scan stopped at an r line because 100 relays were retained
StoppedAtCap ==
    /\ pc = "returned"
    /\ result.kind = "Ok"
    /\ Len(result.value.onion_routers) = 100
    /\ IsRLine(LastRead)

\* the document that was parsed: the lines read, and the unread rest of
\* the head when the scan stopped inside the head
Document ==
    IF StoppedAtCap /\ pos < HeadLen(pre)
    THEN HeadPrefix(pre, HeadLen(pre))
    ELSE Consumed

\* the labels on the s lines from line j up to the next r line
RECURSIVE BlockLabels(_, _)
BlockLabels(lines, j) ==
    IF j > Len(lines) \/ IsRLine(lines[j]) THEN {}
    ELSE (IF IsSLine(lines[j])
          THEN { lines[j][m] : m \in 2 .. Len(lines[j]) }
          ELSE {})
         \union BlockLabels(lines, j + 1)

\* the relay record that starts at the r line k satisfies is_available
RecordAvailable(lines, k) ==
    /\ {"Valid", "Running", "Fast", "Stable"} \subseteq BlockLabels(lines, k + 1)
    /\ Len(lines[k]) >= 8
    /\ lines[k][8] \in DOMAIN U16Table
    /\ U16Table[lines[k][8]] > 0

\* the indices of the r lines, from line k on, of the records that satisfy
\* is_available, in document order
RECURSIVE AvailableBetween(_, _, _)
AvailableBetween(lines, lo, hi) ==
    IF lo > hi THEN <<>>
    ELSE IF lo = hi
         THEN (IF IsRLine(lines[lo]) /\ RecordAvailable(lines, lo)
               THEN <<lo>> ELSE <<>>)
         ELSE LET mid == (lo + hi) \div 2
              IN AvailableBetween(lines, lo, mid)
                     \o AvailableBetween(lines, mid + 1, hi)

AvailableRecords(lines, k) == AvailableBetween(lines, k, Len(lines))

\* the first min(100, n) of them
ExpectedRecords(lines) ==
    LET recs == AvailableRecords(lines, 1)
    IN SubSeq(recs, 1, IF Len(recs) < 100 THEN Len(recs) ELSE 100)

\* C15: the relay sequence of a returned Consensus is exactly the first
\* min(100, n) of the n relay records of the document that satisfy
\* is_available, in document order, each once.
C15_FirstAvailableInOrder ==
    result.kind = "Ok" =>
        LET doc == Document
            exp == ExpectedRecords(doc)
            got == result.value.onion_routers
        IN /\ Len(got) = Len(exp)
           /\ \A m \in 1 .. Len(got) :
                 /\ got[m].nickname = doc[exp[m]][2]
                 /\ got[m].ip = Ipv4Table[doc[exp[m]][6]]
                 /\ got[m].or_port = U16Table[doc[exp[m]][7]]
                 /\ got[m].dir_port = U16Table[doc[exp[m]][8]]

\* a document whose last record is available and follows two others was
\* parsed to the end of input
C15_Witness ==
    /\ result.kind = "Ok"
    /\ pre.blocks = 2
    /\ tail = <<RLine("relayA", "9030"), SGuard>>
    /\ Len(result.value.onion_routers) = 3
    /\ result.value.onion_routers[3].nickname = "relayA"

\* the bit position of each label
LabelBit ==
    ("Authority" :> 0) @@ ("BadExit" :> 1) @@ ("Exit" :> 2) @@ ("Fast" :> 3)
    @@ ("Guard" :> 4) @@ ("HSDir" :> 5) @@ ("MiddleOnly" :> 6)
    @@ ("NoEdConsensus" :> 7) @@ ("Stable" :> 8) @@ ("StaleDesc" :> 9)
    @@ ("Running" :> 10) @@ ("Valid" :> 11) @@ ("V2Dir" :> 12)

\* the labels of the flags set in flags
LabelSet(flags) == { l \in FlagLabels : HasBit(flags, LabelBit[l]) }

\* the index of the last r line among lines[1 .. k]; 0 when there is none
RECURSIVE LastRIndex(_, _)
LastRIndex(lines, k) ==
    IF k = 0 THEN 0
    ELSE IF IsRLine(lines[k]) THEN k
    ELSE LastRIndex(lines, k - 1)

\* C16: the flags of a relay record are exactly the labels of the s lines
\* between its r line and the next r line (or the end of input): a record
\* starts with no flag, s lines accumulate, nothing carries over from the
\* record before.  Stated of the record in progress at every point of the
\* scan and of every retained relay.
C16_FlagsOfBlock ==
    /\ (pc = "scan" /\ IsSome(tmp_onion_router)) =>
           LET lines == Consumed
           IN LabelSet(Unwrap(tmp_onion_router).flags)
                  = BlockLabels(lines, LastRIndex(lines, Len(lines)) + 1)
    /\ result.kind = "Ok" =>
           LET doc == Document
               exp == ExpectedRecords(doc)
               got == result.value.onion_routers
           IN \A m \in 1 .. Len(got) :
                 LabelSet(got[m].flags) = BlockLabels(doc, exp[m] + 1)

\* a record in progress has flags from two s lines
C16_Witness ==
    /\ pc = "scan"
    /\ IsSome(tmp_onion_router)
    /\ pre.blocks = 1
    /\ ~pre.guard
    /\ tail = << <<"s", "Guard">> >>
    /\ LabelSet(Unwrap(tmp_onion_router).flags)
           = {"Fast", "Running", "Stable", "Valid", "Guard"}

\* what may follow the r line at which the scan stops: nothing, or one
\* more line of any kind
LaterLines == {<<>>} \union { <<strs>> : strs \in TailLines }

\* C17: once 100 relays are retained the scan stops and no later line is
\* processed: the step that retains the 100th relay leaves the loop, no
\* line is read after the loop was left, the result is the same whatever
\* follows the r line at which the scan stopped, and it is a Consensus
\* (not an error) when both validity lines were read.
C17_StopsAtCap ==
    /\ [][(pc = "scan" /\ Len(onion_routers') >= 100)
          => pc' = "after_loop"]_vars
    /\ [][pc # "scan" => (pos' = pos /\ tail' = tail)]_vars
    /\ [][(ReadsLine /\ pc' = "after_loop")
          => (/\ \A later \in LaterLines :
                    ScanFrom(CurrentLocals, <<LastRead'>> \o later, 1)
                        = FinalResult(CurrentLocals')
              /\ FinalResult(CurrentLocals').kind # "Err"
              /\ (IsSome(valid_after) /\ IsSome(valid_until))
                     => /\ FinalResult(CurrentLocals').kind = "Ok"
                        /\ Len(FinalResult(CurrentLocals')
                                   .value.onion_routers) = 100)]_vars

\* the scan stopped inside the head, with lines of the document unread
C17_Witness ==
    /\ StoppedAtCap
    /\ pos < HeadLen(pre)
    /\ pos > 200

\* C18: a line with no tokens does not abort the parser: the call still
\* returns Ok or Err as a value.
C18_EmptyLineNoAbort ==
    [][(ReadsLine /\ Len(LastRead') = 0)
       => result'.kind # "Panic"]_vars

\* a step of a call of get_consensus_document_from_cache by process p
GetStep(p) == call'[p] # call[p] /\ call'[p].op = "get"

\* a step on which the get call of process p returns or aborts
GetEnds(p) == GetStep(p) /\ InGet(call[p]) /\ ~InGet(call'[p])

\* C12: once cache_consensus_document(body, t) has returned and no later
\* put has begun, get_consensus_document_from_cache(now) returns body when
\* now <= t, now = t included, and None when now > t; no step of get
\* changes the store
C12_GetAfterPut ==
    /\ [][\A p \in DOMAIN call :
            (GetEnds(p) /\ IsSome(last_put))
            => call'[p].ret =
                 IF call[p].now <= Unwrap(last_put).t
                 THEN Ok(Some(Unwrap(last_put).consensus))
                 ELSE Ok(None)]_vars
    /\ [][\A p \in DOMAIN call : GetStep(p) => store' = store]_vars

\* a get at the very instant of expiry has returned the body of the last put
C12_Witness ==
    /\ IsSome(last_put)
    /\ call["main"].op = "get"
    /\ call["main"].pc = "done"
    /\ call["main"].now = Unwrap(last_put).t
    /\ call["main"].ret = Ok(Some(Unwrap(last_put).consensus))

\* the entry is there and is the UTF-8 text of a timestamp
ReadableValidUntil(st) ==
    /\ IsSome(st[CACHE_KEY_VALID_UNTIL])
    /\ IsSome(FromUtf8(Unwrap(st[CACHE_KEY_VALID_UNTIL])))
    /\ IsSome(parse_from_rfc3339(
                  Unwrap(FromUtf8(Unwrap(st[CACHE_KEY_VALID_UNTIL])))))

StoredValidUntil(st) ==
    Unwrap(parse_from_rfc3339(
               Unwrap(FromUtf8(Unwrap(st[CACHE_KEY_VALID_UNTIL])))))

ReadableBody(st) ==
    /\ IsSome(st[CACHE_KEY_BODY])
    /\ IsSome(FromUtf8(Unwrap(st[CACHE_KEY_BODY])))

\* the stored record is missing or corrupt for a get at the instant now
MissingOrCorrupt(st, now) ==
    \/ ~ReadableValidUntil(st)
    \/ /\ ReadableValidUntil(st)
       /\ now <= StoredValidUntil(st)
       /\ ~ReadableBody(st)

\* C13: a get on a missing or corrupt record (no valid_until entry, a
\* valid_until entry that is not UTF-8 or not a timestamp, or an unexpired
\* valid_until entry without a readable body) returns None and never aborts
C13_CorruptIsMiss ==
    [][\A p \in DOMAIN call :
          (GetEnds(p) /\ MissingOrCorrupt(store, call[p].now))
          => call'[p].ret = Ok(None)]_vars

\* both entries are there and were written by the same put
SamePut ==
    (IsSome(store[CACHE_KEY_BODY]) /\ IsSome(store[CACHE_KEY_VALID_UNTIL]))
    => written_by[CACHE_KEY_BODY] = written_by[CACHE_KEY_VALID_UNTIL]

\* the get of process p returns a body on this step
GetReturnsBody(p) ==
    /\ GetEnds(p)
    /\ call'[p].ret.kind = "Ok"
    /\ IsSome(call'[p].ret.value)

\* C19: under every interleaving of the storage accesses of concurrent put
\* and get calls the stored body and the stored valid_until come from the
\* same put, and a body returned by get(now) was stored by a put whose
\* valid_until >= now
C19_AlwaysSamePut ==
    /\ []SamePut
    /\ [][\A p \in DOMAIN call :
            GetReturnsBody(p)
            => Unwrap(written_by[CACHE_KEY_BODY]).t >= call[p].now]_vars

\* C19 as amended: while the latest put has returned and no put has begun
\* since or overlapped it, both entries are the ones that put wrote; a get
\* that reads both entries in such a period returns the body of that put,
\* whose valid_until >= now
C19_SamePutBetweenPuts ==
    /\ [](IsSome(last_put)
          => /\ store[CACHE_KEY_BODY] = Some(Utf8(Unwrap(last_put).consensus))
             /\ ReadableValidUntil(store)
             /\ StoredValidUntil(store) = Unwrap(last_put).t
             /\ written_by[CACHE_KEY_BODY] = last_put
             /\ written_by[CACHE_KEY_VALID_UNTIL] = last_put)
    /\ [][\A p \in DOMAIN call :
            (GetReturnsBody(p) /\ IsSome(last_put) /\ call[p].seen = last_put)
            => /\ call'[p].ret = Ok(Some(Unwrap(last_put).consensus))
               /\ Unwrap(last_put).t >= call[p].now]_vars

\* a get of one process has returned the body of the put of the other
\* process after a get of an earlier put's entries
C19_Witness ==
    /\ IsSome(last_put)
    /\ call["other"].op = "put"
    /\ call["other"].pc = "done"
    /\ call["main"].op = "get"
    /\ call["main"].pc = "done"
    /\ call["main"].seen = last_put
    /\ call["main"].ret = Ok(Some(call["other"].consensus))
    /\ call["main"].now = call["other"].t

\* no run of main is in progress
BetweenRuns == main.pc \in {"idle", "done", "panicked"}

\* the stored expiry is the valid_until of the parsed stored body
ExpiryOfStoredBody ==
    /\ ReadableValidUntil(store)
    /\ ReadableBody(store)
    /\ LET parsed == parse_consensus_document(
                         Unwrap(FromUtf8(Unwrap(store[CACHE_KEY_BODY]))))
       IN /\ parsed.kind = "Ok"
          /\ parsed.value.valid_until = StoredValidUntil(store)

\* the step of main that parses the document that the cache returned
CacheHit == main.pc = "cache_read" /\ main'.pc # "cache_read"
            /\ call["main"].pc = "done" /\ IsSome(call["main"].ret.value)

====
